---- MODULE Spec2Model ----
(***************************************************************************)
(* The confirmation gate of the two gated tools of the repository:         *)
(*   place_shipping_order      (src/shipping_agent/agent.py)               *)
(*   request_image_generation  (src/image_generation_agent/agent.py)       *)
(* Each tool is a function of its arguments and of the tool_context the    *)
(* runner hands it.  The tool reads tool_context.tool_confirmation (None,  *)
(* or a decision with a boolean `confirmed`) and may call                  *)
(* tool_context.request_confirmation(hint, payload).  The confirmation     *)
(* request is kept with the session (session_service) until a call that    *)
(* carries a decision answers it.                                          *)
(*                                                                         *)
(* f-strings are modelled as the tuple of their literal and interpolated   *)
(* parts, e.g. f"ORD-{n}-AUTO" is <<"ORD", n, "AUTO">>.                    *)
(***************************************************************************)
EXTENDS Integers, Sequences, FiniteSets, TLC

\* ------------------------------------------------------------ dict shapes
\* the dict an approved order returns: status, order_id, num_containers,
\* destination, message
OrderResult(status, order_id, num_containers, destination, message) ==
    [status |-> status, order_id |-> order_id, num_containers |-> num_containers,
     destination |-> destination, message |-> message]
\* every other dict the tools return: status, message
StatusResult_with_order_id(status, message) ==
    [status |-> status, order_id |-> <<>>, message |-> message]
StatusResult(status, message) == [status |-> status, message |-> message]

\* what a tool call yields: the dict it returns and the request_confirmation call
\* it made
Outcome(ret, request) == [ret |-> ret, request |-> request]

\* one call of a tool by the runner
ToolCall(session, tool, size, label, tool_confirmation) ==
    [session |-> session, tool |-> tool, size |-> size, label |-> label,
     tool_confirmation |-> tool_confirmation]

\* payload={"num_containers": num_containers, "destination": destination}
shipping_payload_no_destination(num_containers, destination) ==
    [num_containers |-> num_containers, destination |-> ""]
shipping_payload(num_containers, destination) ==
    [num_containers |-> num_containers, destination |-> destination]

\* payload={"prompt": prompt, "num_images": num_images}
image_payload(prompt, num_images) == [prompt |-> prompt, num_images |-> num_images]

\* tool_context.request_confirmation(hint=..., payload=...)
Request(hint, payload) == [hint |-> hint, payload |-> payload]

\* ------------------------------------------------------------------ bounds
\* sizes offered to the tools: -MaxNegative .. MaxSize
MaxNegative == 1
MaxSize == 7
\* cap on the counter of confirmed executions per suspended invocation
MaxExecutions == 2
\* cap on the counter of suspended invocations a session has outstanding
MaxOutstanding == 2
\* the lookups are tried with every casing of the first MaxCasedPositions
\* characters of a key, and with the key in capitals and with capital initials
MaxCasedPositions == 3

Sizes == (0 - MaxNegative)..MaxSize
Destinations == {"Rotterdam", "Singapore"}
Prompts == {"cat", "dog"}

\* session ids: f"order_{uuid}" for the shipping app, f"img_{uuid}" for the image app
OrderSessions == {"order_1"}
ImgSessions == {"img_1"}
\* a second run of the shipping workflow, which creates a session of its own
PeerSessions == {"order_2"}
ShippingSessions == OrderSessions \cup PeerSessions
Sessions == ShippingSessions \cup ImgSessions

\* ------------------------------------------------------- program constants
LARGE_ORDER_THRESHOLD == 5
BULK_THRESHOLD == 1

\* ------------------------------------------------------------ tool_context
\* tool_context.tool_confirmation: None, or a decision object
None == [none |-> TRUE]
Confirmation(c) == [confirmed |-> c]
ToolConfirmations == {None, Confirmation(TRUE), Confirmation(FALSE)}

\* what a call passed to tool_context.request_confirmation (NoRequest: not called)
NoRequest == [none |-> TRUE]

\* ------------------------------------------------------------- the tools
\* `if num_containers <= LARGE_ORDER_THRESHOLD`
shipping_auto_approves_strict(num_containers) == num_containers < LARGE_ORDER_THRESHOLD
shipping_auto_approves_flipped(num_containers) == num_containers >= LARGE_ORDER_THRESHOLD
shipping_auto_approves(num_containers) == num_containers <= LARGE_ORDER_THRESHOLD

\* `if num_images <= BULK_THRESHOLD`
image_auto_approves_shared(num_images) == num_images <= LARGE_ORDER_THRESHOLD
image_auto_approves(num_images) == num_images <= BULK_THRESHOLD

\* `if not tool_context.tool_confirmation`: no decision is attached to the call
no_confirmation(tool_confirmation) == tool_confirmation = None

\* `if tool_context.tool_confirmation.confirmed`
confirmed_negated(tool_confirmation) == ~tool_confirmation.confirmed
confirmed(tool_confirmation) == tool_confirmation.confirmed

\* f"ORD-{num_containers}-AUTO" and f"ORD-{num_containers}-HUMAN"
auto_order_id(num_containers) == <<"ORD", num_containers, "AUTO">>
human_order_id_as_auto(num_containers) == <<"ORD", num_containers, "AUTO">>
human_order_id(num_containers) == <<"ORD", num_containers, "HUMAN">>

\* place_shipping_order(num_containers, destination, tool_context):
\* ret is the returned dict, request the request_confirmation call it made
place_shipping_order(num_containers, destination, tool_confirmation) ==
    IF shipping_auto_approves(num_containers)
    THEN Outcome(OrderResult("approved", auto_order_id(num_containers),
                             num_containers, destination,
                             <<"Order auto-approved: ", num_containers,
                               " containers to ", destination>>),
                 NoRequest)
    ELSE IF no_confirmation(tool_confirmation)
    THEN Outcome(StatusResult("pending",
                              <<"Order for ", num_containers,
                                " containers requires approval">>),
                 Request(<<"Large order: ", num_containers, " containers to ",
                           destination, ". Approve?">>,
                         shipping_payload(num_containers, destination)))
    ELSE IF confirmed(tool_confirmation)
    THEN Outcome(OrderResult("approved", human_order_id(num_containers),
                             num_containers, destination,
                             <<"Order approved: ", num_containers,
                               " containers to ", destination>>),
                 NoRequest)
    ELSE Outcome(StatusResult("rejected",
                              <<"Order rejected: ", num_containers,
                                " containers to ", destination>>),
                 NoRequest)

\* request_image_generation(prompt, num_images, tool_context)
request_image_generation(prompt, num_images, tool_confirmation) ==
    IF image_auto_approves(num_images)
    THEN Outcome(StatusResult("approved",
                              <<"Auto-approved: ", num_images, " image(s) for '",
                                prompt, "'.">>),
                 NoRequest)
    ELSE IF no_confirmation(tool_confirmation)
    THEN Outcome(StatusResult("pending",
                              <<"Awaiting approval for ", num_images,
                                " image(s).">>),
                 Request(<<"Bulk request for ", num_images,
                           " images. Approve generation for '", prompt, "'?">>,
                         image_payload(prompt, num_images)))
    ELSE IF confirmed(tool_confirmation)
    THEN Outcome(StatusResult("approved",
                              <<"Approved bulk generation: ", num_images,
                                " image(s) for '", prompt, "'.">>),
                 NoRequest)
    ELSE Outcome(StatusResult("rejected",
                              <<"Rejected bulk generation for '", prompt, "'.">>),
                 NoRequest)

\* ------------------------------------------------- the currency lookups
\* (src/currency_converter_agent/agent.py)  A str is the tuple of its characters.
LowerLetters == <<"a", "b", "c", "d", "e", "f", "g", "h", "i", "j", "k", "l", "m", "n", "o", "p", "q", "r", "s", "t", "u", "v", "w", "x", "y", "z">>
UpperLetters == <<"A", "B", "C", "D", "E", "F", "G", "H", "I", "J", "K", "L", "M", "N", "O", "P", "Q", "R", "S", "T", "U", "V", "W", "X", "Y", "Z">>

\* str.lower(), character by character
lower_char(c) ==
    IF \E i \in DOMAIN UpperLetters : UpperLetters[i] = c
    THEN LowerLetters[CHOOSE i \in DOMAIN UpperLetters : UpperLetters[i] = c]
    ELSE c
lower_unchanged(str) == str
lower(str) == [i \in DOMAIN str |-> lower_char(str[i])]

\* dict.get(key): the value stored under key, or None; a dict is the tuple of its
\* <<key, value>> items
dict_get(dict, key) ==
    IF \E i \in DOMAIN dict : dict[i][1] = key
    THEN dict[CHOOSE i \in DOMAIN dict : dict[i][1] = key][2]
    ELSE None
\* dict.get(key, {})
dict_get_or_empty(dict, key) ==
    IF \E i \in DOMAIN dict : dict[i][1] = key
    THEN dict[CHOOSE i \in DOMAIN dict : dict[i][1] = key][2]
    ELSE <<>>

\* a float literal of the tables
Float(literal) == [float |-> literal]

platinum_credit_card == <<"p", "l", "a", "t", "i", "n", "u", "m", " ", "c", "r", "e", "d", "i", "t", " ", "c", "a", "r", "d">>
gold_debit_card == <<"g", "o", "l", "d", " ", "d", "e", "b", "i", "t", " ", "c", "a", "r", "d">>
bank_transfer == <<"b", "a", "n", "k", " ", "t", "r", "a", "n", "s", "f", "e", "r">>
fee_database ==
    << <<platinum_credit_card, Float("0.02")>>,
       <<gold_debit_card, Float("0.035")>>,
       <<bank_transfer, Float("0.01")>> >>

usd == <<"u", "s", "d">>
eur == <<"e", "u", "r">>
jpy == <<"j", "p", "y">>
inr == <<"i", "n", "r">>
usd_rates == << <<eur, Float("0.93")>>, <<jpy, Float("157.5")>>, <<inr, Float("83.58")>> >>
rate_database == << <<usd, usd_rates>> >>

\* the dicts the lookups return
FeeResult(status, fee_percentage) == [status |-> status, fee_percentage |-> fee_percentage]
RateResult(status, rate) == [status |-> status, rate |-> rate]
ErrorResult(status, error_message) == [status |-> status, error_message |-> error_message]

get_fee_for_payment_method(method) ==
    LET fee == dict_get(fee_database, lower(method))
    IN  IF fee # None
        THEN FeeResult("success", fee)
        ELSE ErrorResult("error", <<"Payment method '", method, "' not found">>)

\* rate_database.get(base_currency.lower(), {}).get(target_currency.lower())
get_exchange_rate(base_currency, target_currency) ==
    LET rate == dict_get(dict_get_or_empty(rate_database, lower(base_currency)),
                         lower(target_currency))
    IN  IF rate # None
        THEN RateResult("success", rate)
        ELSE ErrorResult("error", <<"Unsupported currency pair: ", base_currency,
                                    "/", target_currency>>)

\* ------------------------------------------------------------------ state
VARIABLES
    pending,     \* session -> the confirmation request the session holds, or NoRequest
    executions,  \* session -> times the suspended invocation was executed on the
                 \*            confirmed path since it was suspended
    outstanding, \* session -> invocations suspended as pending in the session that
                 \*            no decision has answered yet
    last,        \* the latest tool call: session, tool, arguments, tool_confirmation
    prior,       \* what pending[last.session] was when that call was made
    result,      \* the dict the latest call returned
    requested,   \* the request_confirmation call the latest call made, or NoRequest
    lookup,      \* the latest call of a currency lookup: tool and arguments
    answer,      \* the dict that lookup returned
    earlier      \* an event kept from an earlier call: <<call, dict returned>>, or <<>>

gate_vars == <<pending, executions, outstanding, last, prior, result, requested>>
lookup_vars == <<lookup, answer>>
vars == <<gate_vars, lookup_vars, earlier>>

NoCall == [none |-> TRUE]
NoResult == [none |-> TRUE]

Init ==
    /\ pending = [s \in Sessions |-> NoRequest]
    /\ executions = [s \in Sessions |-> 0]
    /\ outstanding = [s \in Sessions |-> 0]
    /\ last = NoCall
    /\ prior = NoRequest
    /\ result = NoResult
    /\ requested = NoRequest
    /\ lookup = NoCall
    /\ answer = NoResult
    /\ earlier = <<>>

\* the call took the confirmed branch of a tool (the gated action on human approval)
ConfirmedBranch(ret) ==
    /\ ret.status = "approved"
    /\ \/ "order_id" \in DOMAIN ret /\ ret.order_id[3] = "HUMAN"
       \/ ret.message[1] = "Approved bulk generation: "

\* the same call over a store that keeps one record for all sessions
Invoke_shared_store(s, call, out) ==
    LET resumed == pending[s] # NoRequest \/ executions[s] > 0
        counts  == ConfirmedBranch(out.ret) /\ resumed
    IN  /\ counts => executions[s] < MaxExecutions
        /\ out.request # NoRequest => outstanding[s] < MaxOutstanding
        /\ last' = call
        /\ prior' = pending[s]
        /\ result' = out.ret
        /\ requested' = out.request
        /\ pending' = [t \in Sessions |->
                          IF out.request # NoRequest THEN out.request
                          ELSE IF call.tool_confirmation # None THEN NoRequest
                          ELSE pending[t]]
        /\ executions' = [executions EXCEPT ![s] =
                          IF out.request # NoRequest THEN 0
                          ELSE IF counts THEN @ + 1
                          ELSE @]
        /\ outstanding' = [outstanding EXCEPT ![s] =
                          IF out.request # NoRequest THEN @ + 1
                          ELSE IF call.tool_confirmation # None THEN 0
                          ELSE @]

\* the same call by a tool that looks at what the session holds
Invoke_stateful(s, call, out) ==
    LET resumed == pending[s] # NoRequest \/ executions[s] > 0
        counts  == ConfirmedBranch(out.ret) /\ resumed
    IN  /\ counts => executions[s] < MaxExecutions
        /\ out.request # NoRequest => outstanding[s] < MaxOutstanding
        /\ last' = call
        /\ prior' = pending[s]
        /\ result' = IF call.tool_confirmation # None /\ pending[s] = NoRequest
                     THEN StatusResult("rejected", <<"Nothing is pending">>)
                     ELSE out.ret
        /\ requested' = out.request
        /\ pending' = [pending EXCEPT ![s] =
                          IF out.request # NoRequest THEN out.request
                          ELSE IF call.tool_confirmation # None THEN NoRequest
                          ELSE @]
        /\ executions' = [executions EXCEPT ![s] =
                          IF out.request # NoRequest THEN 0
                          ELSE IF counts THEN @ + 1
                          ELSE @]
        /\ outstanding' = [outstanding EXCEPT ![s] =
                          IF out.request # NoRequest THEN @ + 1
                          ELSE IF call.tool_confirmation # None THEN 0
                          ELSE @]

\* One tool call made by the runner in session s.  The request the tool makes
\* is kept with the session; a call that carries a decision answers the request
\* the session held.  executions[s] counts the runs of the confirmed branch for
\* the invocation suspended in s: the run that resumes it and every later one,
\* until the session is suspended again.  outstanding[s] counts the calls that
\* requested a confirmation in s since the last call that carried a decision.
Invoke(s, call, out) ==
    LET resumed == pending[s] # NoRequest \/ executions[s] > 0
        counts  == ConfirmedBranch(out.ret) /\ resumed
    IN  /\ counts => executions[s] < MaxExecutions
        /\ out.request # NoRequest => outstanding[s] < MaxOutstanding
        /\ last' = call
        /\ prior' = pending[s]
        /\ result' = out.ret
        /\ requested' = out.request
        /\ pending' = [pending EXCEPT ![s] =
                          IF out.request # NoRequest THEN out.request
                          ELSE IF call.tool_confirmation # None THEN NoRequest
                          ELSE @]
        /\ executions' = [executions EXCEPT ![s] =
                          IF out.request # NoRequest THEN 0
                          ELSE IF counts THEN @ + 1
                          ELSE @]
        /\ outstanding' = [outstanding EXCEPT ![s] =
                          IF out.request # NoRequest THEN @ + 1
                          ELSE IF call.tool_confirmation # None THEN 0
                          ELSE @]

PlaceShippingOrder(s, n, d, tc) ==
    /\ s \in ShippingSessions
    /\ Invoke(s, ToolCall(s, "place_shipping_order", n, d, tc),
              place_shipping_order(n, d, tc))
    /\ UNCHANGED <<lookup_vars, earlier>>

RequestImageGeneration(s, p, n, tc) ==
    /\ s \in ImgSessions
    /\ Invoke(s, ToolCall(s, "request_image_generation", n, p, tc),
              request_image_generation(p, n, tc))
    /\ UNCHANGED <<lookup_vars, earlier>>

Next ==
    \/ \E s \in OrderSessions, n \in Sizes, d \in Destinations, tc \in ToolConfirmations :
          PlaceShippingOrder(s, n, d, tc)
    \/ \E s \in ImgSessions, p \in Prompts, n \in Sizes, tc \in ToolConfirmations :
          RequestImageGeneration(s, p, n, tc)

Spec == Init /\ [][Next]_vars

\* Two runs of the shipping workflow, each in its own session, their calls
\* interleaved in every order; sizes on both sides of the threshold.
IsolationSizes == {LARGE_ORDER_THRESHOLD, LARGE_ORDER_THRESHOLD + 1}
NextIsolation ==
    \E s \in ShippingSessions, n \in IsolationSizes, d \in Destinations,
       tc \in ToolConfirmations :
          PlaceShippingOrder(s, n, d, tc)

SpecIsolation == Init /\ [][NextIsolation]_vars

\* The events of a run are kept: the latest call and the dict it returned are
\* set aside, once, to be compared with the calls made afterwards.
Remember ==
    /\ last # NoCall
    /\ earlier = <<>>
    /\ earlier' = <<last, result>>
    /\ UNCHANGED <<gate_vars, lookup_vars>>

\* Calls of both tools, each in its session, on both sides of its threshold,
\* with any call's event kept.
BulkSizes == {BULK_THRESHOLD, BULK_THRESHOLD + 1}
NextDeterminism ==
    \/ \E s \in OrderSessions, n \in IsolationSizes, d \in Destinations,
          tc \in ToolConfirmations :
             PlaceShippingOrder(s, n, d, tc)
    \/ \E s \in ImgSessions, p \in Prompts, n \in BulkSizes,
          tc \in ToolConfirmations :
             RequestImageGeneration(s, p, n, tc)
    \/ Remember

SpecDeterminism == Init /\ [][NextDeterminism]_vars

\* ---------------------------------------------- the lookups as operations
\* str.upper(), character by character, for building the inputs
upper_char(c) ==
    IF \E i \in DOMAIN LowerLetters : LowerLetters[i] = c
    THEN UpperLetters[CHOOSE i \in DOMAIN LowerLetters : LowerLetters[i] = c]
    ELSE c
\* word with the characters at the given positions in capitals
Cased(word, positions) ==
    [i \in DOMAIN word |-> IF i \in positions THEN upper_char(word[i]) ELSE word[i]]
\* the positions of the initials of the words of a str
Initials(word) == {i \in DOMAIN word : i = 1 \/ word[i - 1] = " "}
Casings(word) ==
    {Cased(word, P) : P \in SUBSET (DOMAIN word \cap 1..MaxCasedPositions)
                               \cup {DOMAIN word, Initials(word)}}

bitcoin == <<"b", "i", "t", "c", "o", "i", "n">>
Methods == UNION {Casings(w) : w \in {platinum_credit_card, gold_debit_card,
                                      bank_transfer, bitcoin}}
BaseCurrencies == UNION {Casings(w) : w \in {usd, eur}}
TargetCurrencies == UNION {Casings(w) : w \in {usd, eur, jpy, inr}}

FeeCall(method) == [tool |-> "get_fee_for_payment_method", method |-> method]
RateCall(base_currency, target_currency) ==
    [tool |-> "get_exchange_rate", base_currency |-> base_currency,
     target_currency |-> target_currency]

GetFeeForPaymentMethod(method) ==
    /\ lookup' = FeeCall(method)
    /\ answer' = get_fee_for_payment_method(method)
    /\ UNCHANGED <<gate_vars, earlier>>

GetExchangeRate(base_currency, target_currency) ==
    /\ lookup' = RateCall(base_currency, target_currency)
    /\ answer' = get_exchange_rate(base_currency, target_currency)
    /\ UNCHANGED <<gate_vars, earlier>>

NextLookup ==
    \/ \E method \in Methods : GetFeeForPaymentMethod(method)
    \/ \E b \in BaseCurrencies, c \in TargetCurrencies : GetExchangeRate(b, c)

SpecLookup == Init /\ [][NextLookup]_vars

\* ------------------------------------------------- vocabulary of the claims
Called == last # NoCall
IsShipping == last.tool = "place_shipping_order"
IsImage == last.tool = "request_image_generation"

\* the threshold of the tool the latest call went to
Threshold == IF IsShipping THEN LARGE_ORDER_THRESHOLD ELSE BULK_THRESHOLD

\* the arguments of the latest call, in the shape of the tool's payload
CallArguments ==
    IF IsShipping
    THEN [num_containers |-> last.size, destination |-> last.label]
    ELSE [prompt |-> last.label, num_images |-> last.size]

\* a fresh call carries no decision
Fresh == Called /\ last.tool_confirmation = None
\* a call carrying a decision
Decided == Called /\ last.tool_confirmation # None
\* a resumption: the session held a pending record and the call carries a decision
Resumption == Decided /\ prior # NoRequest

\* the result of the auto-approve branch
AutoApproved(ret) ==
    /\ ret.status = "approved"
    /\ \/ "order_id" \in DOMAIN ret /\ ret.order_id[3] = "AUTO"
       \/ ret.message[1] = "Auto-approved: "

\* ---------------------------------------------------------------- claims

\* C1: after a call was suspended as pending, resuming it any number of times
\* with confirmed=true executes the gated action at most once.
AtMostOnceExecution == \A s \in Sessions : executions[s] <= 1

\* C2: a call that carries a decision in a session that holds no pending record
\* never returns status approved or rejected (it signals an error instead).
DecisionWithoutPendingNeverResolves ==
    (Decided /\ prior = NoRequest) => result.status \notin {"approved", "rejected"}

\* C3: the result of a resumption depends only on the attached decision:
\* confirmed=true gives approved, confirmed=false gives rejected, whatever size
\* the resuming call presents; a rejected resumption never returns approved.
ResumptionDependsOnlyOnDecision ==
    Resumption =>
        result.status = (IF last.tool_confirmation.confirmed THEN "approved"
                                                             ELSE "rejected")

\* C4: a call with no decision attached and a size above the tool's threshold
\* returns pending, requests confirmation with a payload equal to the call's
\* arguments, and leaves a pending record with that payload in the session.
OverThresholdSuspends ==
    (Fresh /\ last.size > Threshold) =>
        /\ result.status = "pending"
        /\ requested # NoRequest
        /\ requested.payload = CallArguments
        /\ pending[last.session] # NoRequest
        /\ pending[last.session].payload = CallArguments
WitnessOverThresholdSuspends ==
    /\ Fresh /\ IsShipping /\ last.size > Threshold
    /\ result.status = "pending"
    /\ pending[last.session].payload.destination = "Singapore"

\* C5: a first call (no decision attached, nothing pending in the session) with a
\* size at most the tool's threshold returns approved, requests no confirmation
\* and leaves no pending record in the session.
UnderThresholdAutoApproves ==
    (Fresh /\ prior = NoRequest /\ last.size <= Threshold) =>
        /\ result.status = "approved"
        /\ requested = NoRequest
        /\ pending[last.session] = NoRequest
WitnessUnderThresholdAutoApproves ==
    /\ Fresh /\ prior = NoRequest /\ IsShipping /\ last.size = LARGE_ORDER_THRESHOLD
    /\ result.status = "approved"
    /\ pending[last.session] = NoRequest

\* C6: a resumption with confirmed=true of a session that holds a pending record
\* returns approved, and afterwards the session holds no pending record.
ConfirmedResumptionApproves ==
    (Resumption /\ last.tool_confirmation = Confirmation(TRUE)) =>
        /\ result.status = "approved"
        /\ pending[last.session] = NoRequest
WitnessConfirmedResumptionApproves ==
    /\ Resumption /\ last.tool_confirmation = Confirmation(TRUE)
    /\ prior.payload = CallArguments
    /\ ConfirmedBranch(result)
    /\ pending[last.session] = NoRequest

\* C7: a resumption with confirmed=false of a session that holds a pending record
\* returns rejected, produces no order identifier, and afterwards the session
\* holds no pending record.
RejectedResumptionRejects ==
    (Resumption /\ last.tool_confirmation = Confirmation(FALSE)) =>
        /\ result.status = "rejected"
        /\ "order_id" \notin DOMAIN result
        /\ pending[last.session] = NoRequest

\* C8: the approved result of a resumption reports the arguments stored at
\* suspension (the payload of the pending record), even if the resuming call
\* presents other arguments.
ReportedSize(ret) == IF "num_containers" \in DOMAIN ret THEN ret.num_containers
                                                        ELSE ret.message[2]
ReportedLabel(ret) == IF "destination" \in DOMAIN ret THEN ret.destination
                                                      ELSE ret.message[4]
ResumptionUsesStoredArguments ==
    (Resumption /\ last.tool_confirmation = Confirmation(TRUE)
                /\ result.status = "approved") =>
        IF IsShipping
        THEN /\ ReportedSize(result) = prior.payload.num_containers
             /\ ReportedLabel(result) = prior.payload.destination
        ELSE /\ ReportedSize(result) = prior.payload.num_images
             /\ ReportedLabel(result) = prior.payload.prompt

\* C9: for every size (zero and negative included) the shipping tool asks for
\* confirmation exactly when num_containers > 5 and the image tool exactly when
\* num_images > 1, and otherwise auto-approves; sizes 2..5 are auto-approved by
\* the shipping tool and gated by the image tool.
PolicyIsTotalAndPerTool ==
    Called =>
        LET limit == IF IsShipping THEN 5 ELSE 1
        IN  /\ AutoApproved(result) <=> last.size <= limit
            /\ Fresh => (result.status = "pending" <=> last.size > limit)
            /\ Fresh => (requested # NoRequest <=> last.size > limit)
            /\ last.size \in 2..5 =>
                  IF IsShipping THEN AutoApproved(result) /\ requested = NoRequest
                                ELSE ~AutoApproved(result)
WitnessPolicyIsTotalAndPerTool ==
    /\ Fresh /\ IsImage /\ last.size \in 2..5
    /\ result.status = "pending"
    /\ requested # NoRequest

\* C10: place_shipping_order yields an identifier ending in AUTO exactly on the
\* auto-approve path (size at most the threshold) and one ending in HUMAN exactly
\* on the confirmed path (size above the threshold with confirmed=true); no
\* identifier of one path is an identifier of the other.
OrderIdsTellThePaths ==
    /\ (Called /\ IsShipping) =>
          /\ ("order_id" \in DOMAIN result /\ result.order_id[3] = "AUTO")
                <=> last.size <= LARGE_ORDER_THRESHOLD
          /\ ("order_id" \in DOMAIN result /\ result.order_id[3] = "HUMAN")
                <=> (last.size > LARGE_ORDER_THRESHOLD
                     /\ last.tool_confirmation = Confirmation(TRUE))
          /\ "order_id" \in DOMAIN result => result.order_id[2] = last.size
    /\ \A n, m \in Sizes : auto_order_id(n) # human_order_id(m)
WitnessOrderIdsTellThePaths ==
    /\ Resumption /\ IsShipping /\ last.tool_confirmation = Confirmation(TRUE)
    /\ prior.payload = CallArguments
    /\ result.order_id = <<"ORD", last.size, "HUMAN">>

\* C11: a session never has two pending invocations outstanding, whatever the
\* sequence of fresh gated calls and resumptions, a second over-threshold fresh
\* call while one is pending included.
AtMostOnePendingPerSession == \A s \in Sessions : outstanding[s] <= 1

\* two strs are equal up to the case of their letters
SameIgnoringCase(a, b) ==
    /\ Len(a) = Len(b)
    /\ \A i \in DOMAIN a :
          \/ a[i] = b[i]
          \/ \E k \in DOMAIN LowerLetters :
                {a[i], b[i]} = {LowerLetters[k], UpperLetters[k]}
LookedUp == lookup # NoCall
IsFee == lookup.tool = "get_fee_for_payment_method"

\* C12 as stated: every case variant of a key gets the same result as the key in
\* lower case (and so as every other variant of it).
LookupResultIgnoresCase ==
    LookedUp =>
        IF IsFee
        THEN answer = get_fee_for_payment_method(lower(lookup.method))
        ELSE answer = get_exchange_rate(lower(lookup.base_currency),
                                        lower(lookup.target_currency))

\* C12 as amended: the status, and on success the table value, are the same for
\* every case variant of a key; a key of the table in any casing gets success
\* with its table value; any other key, and any pair whose base is not usd, gets
\* the error outcome and never success.  (The error message quotes the key as
\* it was given.)
FeeTable ==
    { <<platinum_credit_card, "0.02">>, <<gold_debit_card, "0.035">>,
      <<bank_transfer, "0.01">> }
RateTable == { <<eur, "0.93">>, <<jpy, "157.5">>, <<inr, "83.58">> }
LookupsAreCaseInsensitive ==
    LookedUp =>
        IF IsFee
        THEN LET hits == {e \in FeeTable : SameIgnoringCase(lookup.method, e[1])}
             IN  IF hits # {}
                 THEN /\ answer.status = "success"
                      /\ \A e \in hits : answer.fee_percentage = [float |-> e[2]]
                 ELSE /\ answer.status = "error"
                      /\ DOMAIN answer = {"status", "error_message"}
        ELSE LET hits == {e \in RateTable :
                             /\ SameIgnoringCase(lookup.base_currency, usd)
                             /\ SameIgnoringCase(lookup.target_currency, e[1])}
             IN  IF hits # {}
                 THEN /\ answer.status = "success"
                      /\ \A e \in hits : answer.rate = [float |-> e[2]]
                 ELSE /\ answer.status = "error"
                      /\ DOMAIN answer = {"status", "error_message"}
WitnessLookupsAreCaseInsensitive ==
    /\ LookedUp /\ IsFee
    /\ lookup.method = Cased(platinum_credit_card, Initials(platinum_credit_card))
    /\ lookup.method[1] = "P" /\ lookup.method[10] = "C" /\ lookup.method[17] = "C"
    /\ answer = [status |-> "success", fee_percentage |-> [float |-> "0.02"]]

\* C13: a terminal decision is never derived by the gate itself: a call returns
\* rejected only if it carries confirmed=false, returns a human-approved result
\* only if it carries confirmed=true, and with no decision attached returns
\* only an auto-approved or a pending result.
DecisionsComeFromOutside ==
    Called =>
        /\ result.status = "rejected" => last.tool_confirmation = Confirmation(FALSE)
        /\ ConfirmedBranch(result) => last.tool_confirmation = Confirmation(TRUE)
        /\ Fresh => (AutoApproved(result) \/ result.status = "pending")
WitnessDecisionsComeFromOutside ==
    /\ Resumption /\ IsImage
    /\ last.tool_confirmation = Confirmation(FALSE)
    /\ result.status = "rejected"

\* C14: the dict place_shipping_order returns holds order_id, num_containers and
\* destination if and only if its status is approved; a pending or rejected
\* result holds status and message only.
OrderFields == {"order_id", "num_containers", "destination"}
OrderFieldsOnlyWhenApproved ==
    (Called /\ IsShipping) =>
        /\ result.status = "approved" <=> OrderFields \subseteq DOMAIN result
        /\ result.status = "approved" =>
              DOMAIN result = OrderFields \cup {"status", "message"}
        /\ result.status # "approved" => DOMAIN result = {"status", "message"}
WitnessOrderFieldsOnlyWhenApproved ==
    /\ Resumption /\ IsShipping
    /\ result.status = "rejected"
    /\ DOMAIN result = {"status", "message"}

\* C18: every call of a gated tool, whatever its size and decision state,
\* returns within the call one result whose status is approved, pending or
\* rejected; a call that needs a confirmation returns pending at once.
EveryCallReturnsAtOnce ==
    Called =>
        /\ result # NoResult
        /\ result.status \in {"approved", "pending", "rejected"}
        /\ (Fresh /\ last.size > Threshold) =>
              (result.status = "pending" /\ pending[last.session] = requested)
WitnessEveryCallReturnsAtOnce ==
    /\ Fresh /\ IsImage /\ last.size > Threshold
    /\ result.status = "pending"
    /\ outstanding[last.session] = 1

\* C19: a call makes a confirmation request (one, never more) if and only if the
\* result it returns is pending, which is exactly when the size is above the
\* threshold and no decision is attached; auto-approved, human-approved and
\* rejected calls request nothing.
RequestsExactlyWhenPending ==
    Called =>
        /\ requested # NoRequest <=> result.status = "pending"
        /\ result.status = "pending" <=>
              (last.size > Threshold /\ last.tool_confirmation = None)
        /\ (AutoApproved(result) \/ ConfirmedBranch(result)
                                 \/ result.status = "rejected")
              => requested = NoRequest
WitnessRequestsExactlyWhenPending ==
    /\ Decided /\ IsShipping /\ last.size > Threshold
    /\ ConfirmedBranch(result)
    /\ requested = NoRequest

SameCall(a, b) ==
    /\ a.tool = b.tool
    /\ a.size = b.size
    /\ a.label = b.label
    /\ a.tool_confirmation = b.tool_confirmation
====
